---- MODULE Spec2Model ----
(***************************************************************************)
(* zbus/src/message_fields.rs                                              *)
(*                                                                         *)
(*   MessageFields       an ordered collection of header fields            *)
(*   FieldPos            a byte range of a field inside a message buffer   *)
(*   QuickMessageFields  a cache of FieldPos for path, interface, member   *)
(*                       and of the reply serial                           *)
(*                                                                         *)
(* Three specifications share the variables:                               *)
(*   SpecFields  the operations of MessageFields                           *)
(*   SpecPos     FieldPos::build / new / read over an arbitrary memory     *)
(*   Spec        QuickMessageFields over a message, read by several        *)
(*               readers                                                   *)
(***************************************************************************)
EXTENDS Integers, Sequences, FiniteSets

\* ------------------------------------------------------------------ bounds
\* Number of distinct field codes and of distinct values per code.
NumCodes == 2
NumVals == 2
\* Longest collection the model builds (a Vec has no such limit).
MaxLen == 3
\* Number of addresses whose byte varies; the addresses above them, up to
\* AddrTop, hold the byte 'a'.
MemSize == 3
\* The largest value of FieldPos::start and FieldPos::end: u32::MAX, scaled
\* down to the address space of the model.
PosMax == 8
\* Length of the prefix of a message buffer that has one, before its first
\* header field.
PrefixLen == 1
\* Number of threads reading a built QuickMessageFields.
NumReaders == 2

VARIABLES
    \* MessageFields
    fields,      \* self.0, the Vec<MessageField>
    alive,       \* FALSE once into_field has consumed the collection
    lastOp,      \* name of the last operation
    lastArg,     \* its argument (a field, or a field with only a code)
    lastRet,     \* its return value (NoField for None and for ())
    prevFields,  \* self.0 before the last operation
    slice,       \* the slice get() returned, while it is borrowed
    onlyReplace, \* no add was made since the collection was created
    replaced,    \* while onlyReplace: code -> value last replaced (0: none)
    \* FieldPos
    mem,         \* the bytes of the address space: address -> byte
    msgBuf,      \* msg_buf: &[u8], a slice [ptr, len] of mem
    fieldBuf,    \* field: Option<&T>, a str slice [ptr, len] of mem, or NoSlice
    pos,         \* the FieldPos under test (NoPos: build returned None)
    stage,       \* "input", then how pos was made: "build", "new", "new_unknown"
    res,         \* what the last read returned
    readKind,    \* the target type T of the last read ("" before any)
    readBuf,     \* the msg_buf the last read was given (NoSlice before any)
    fbCalls,     \* how often the last read invoked its fallback
    bufReads,    \* how often the last read sliced msg_buf
    \* QuickMessageFields
    msg,         \* the Message: its buffer and what its header lookups return
    cache,       \* the QuickMessageFields (NoCache: none was built)
    built,       \* "no", "new", "default", "failed" (new returned Err)
    rd           \* the readers: where each is in its accessor call

fieldsVars ==
    <<fields, alive, lastOp, lastArg, lastRet, prevFields, slice, onlyReplace,
      replaced>>
posVars ==
    <<mem, msgBuf, fieldBuf, pos, stage, res, readKind, readBuf, fbCalls,
      bufReads>>
cacheVars == <<msg, cache, built, rd>>
vars == <<fieldsVars, posVars, cacheVars>>

\* ----------------------------------------------------------- MessageFields
Codes == 1..NumCodes
Vals == 1..NumVals

\* A MessageField: its code and the value it carries.
MessageField == [code : Codes, value : Vals]

\* Option::None of a MessageField.
NoField == [code |-> 0, value |-> 0]

\* A bare code, as the argument of get_field / into_field.
CodeArg(c) == [code |-> c, value |-> 0]

\* iter().find(|f| f.code() == code): the lowest index whose code matches, 0
\* when there is none.
FindFirst(v, code) ==
    IF \E i \in 1..Len(v) : v[i].code = code
    THEN CHOOSE i \in 1..Len(v) :
            /\ v[i].code = code
            /\ \A j \in 1..(i - 1) : v[j].code # code
    ELSE 0

\* MessageFields::new / Default::default
FieldsNew ==
    /\ UNCHANGED <<posVars, cacheVars>>
    /\ fields' = <<>>
    /\ alive' = TRUE
    /\ lastOp' = "new"
    /\ lastArg' = NoField
    /\ lastRet' = NoField
    /\ prevFields' = <<>>
    /\ slice' = <<>>
    /\ onlyReplace' = TRUE
    /\ replaced' = [c \in Codes |-> 0]

\* Mutant of Push: a push that enforces uniqueness of the code.
PushUnique(v, field) ==
    IF \E i \in 1..Len(v) : v[i].code = field.code THEN v ELSE Append(v, field)

\* self.0.push(field)
Push(v, field) == Append(v, field)

\* MessageFields::add
Add(field) ==
    /\ UNCHANGED <<posVars, cacheVars>>
    /\ alive
    /\ Len(fields) < MaxLen
    /\ fields' = Push(fields, field)
    /\ lastOp' = "add"
    /\ lastArg' = field
    /\ lastRet' = NoField
    /\ prevFields' = fields
    /\ slice' = <<>>
    /\ onlyReplace' = FALSE
    /\ replaced' = [c \in Codes |-> 0]
    /\ UNCHANGED alive

\* Mutant of ReplaceFields: the match is removed and the new field appended.
ReplaceMoveToEnd(v, field) ==
    LET i == FindFirst(v, field.code)
    IN  IF i # 0
        THEN Append(SubSeq(v, 1, i - 1) \o SubSeq(v, i + 1, Len(v)), field)
        ELSE Append(v, field)

\* Mutant of ReplaceFields: every entry with the code is overwritten.
ReplaceAllMatches(v, field) ==
    IF \E i \in 1..Len(v) : v[i].code = field.code
    THEN [i \in 1..Len(v) |-> IF v[i].code = field.code THEN field ELSE v[i]]
    ELSE Append(v, field)

\* Mutant of ReplaceFields: the scan misses a match at index 0.
ReplaceSkipsFirst(v, field) ==
    IF \E i \in 2..Len(v) : v[i].code = field.code
    THEN LET i == CHOOSE i \in 2..Len(v) :
                     /\ v[i].code = field.code
                     /\ \A j \in 2..(i - 1) : v[j].code # field.code
         IN  [v EXCEPT ![i] = field]
    ELSE Append(v, field)

\* The collection MessageFields::replace leaves.
ReplaceFields(v, field) ==
    LET i == FindFirst(v, field.code)
    IN  IF i # 0 THEN [v EXCEPT ![i] = field] ELSE Push(v, field)

\* Mutant of ReplaceRet: the new field is returned instead of the old one.
ReplaceRetNew(v, field) ==
    LET i == FindFirst(v, field.code)
    IN  IF i # 0 THEN field ELSE NoField

\* The value MessageFields::replace returns.
ReplaceRet(v, field) ==
    LET i == FindFirst(v, field.code)
    IN  IF i # 0 THEN v[i] ELSE NoField

\* MessageFields::replace
Replace(field) ==
    /\ UNCHANGED <<posVars, cacheVars>>
    /\ alive
    /\ FindFirst(fields, field.code) = 0 => Len(fields) < MaxLen
    /\ fields' = ReplaceFields(fields, field)
    /\ lastOp' = "replace"
    /\ lastArg' = field
    /\ lastRet' = ReplaceRet(fields, field)
    /\ prevFields' = fields
    /\ slice' = <<>>
    /\ replaced' = IF onlyReplace
                   THEN [replaced EXCEPT ![field.code] = field.value]
                   ELSE replaced
    /\ UNCHANGED onlyReplace
    /\ UNCHANGED alive

\* MessageFields::get
Get ==
    /\ UNCHANGED <<posVars, cacheVars>>
    /\ alive
    /\ slice' = fields
    /\ lastOp' = "get"
    /\ lastArg' = NoField
    /\ lastRet' = NoField
    /\ prevFields' = fields
    /\ UNCHANGED <<fields, alive, onlyReplace, replaced>>

\* The value get_field returns.
GetFieldRet(v, code) ==
    LET i == FindFirst(v, code)
    IN  IF i # 0 THEN v[i] ELSE NoField

\* MessageFields::get_field
GetField(code) ==
    /\ UNCHANGED <<posVars, cacheVars>>
    /\ alive
    /\ lastOp' = "get_field"
    /\ lastArg' = CodeArg(code)
    /\ lastRet' = GetFieldRet(fields, code)
    /\ prevFields' = fields
    /\ slice' = <<>>
    /\ UNCHANGED <<fields, alive, onlyReplace, replaced>>

\* The loop of into_field: the first field, from index i on, whose code matches.
RECURSIVE IntoFieldFrom(_, _, _)
IntoFieldFrom(v, code, i) ==
    IF i > Len(v) THEN NoField
    ELSE IF v[i].code = code THEN v[i]
    ELSE IntoFieldFrom(v, code, i + 1)

\* MessageFields::into_field: consumes the collection.
IntoField(code) ==
    /\ UNCHANGED <<posVars, cacheVars>>
    /\ alive
    /\ lastOp' = "into_field"
    /\ lastArg' = CodeArg(code)
    /\ lastRet' = IntoFieldFrom(fields, code, 1)
    /\ prevFields' = fields
    /\ fields' = <<>>
    /\ alive' = FALSE
    /\ slice' = <<>>
    /\ UNCHANGED <<onlyReplace, replaced>>

FieldsIdle ==
    /\ fields = <<>>
    /\ alive = TRUE
    /\ lastOp = "new"
    /\ lastArg = NoField
    /\ lastRet = NoField
    /\ prevFields = <<>>
    /\ slice = <<>>
    /\ onlyReplace = TRUE
    /\ replaced = [c \in Codes |-> 0]

FieldsOps ==
    \/ FieldsNew
    \/ \E f \in MessageField : Add(f)
    \/ \E f \in MessageField : Replace(f)
    \/ Get
    \/ \E c \in Codes : GetField(c)
    \/ \E c \in Codes : IntoField(c)

\* ---------------------------------------------------------------- FieldPos
\* The bytes the model places in memory: '/', 'a', and 0xFF, which no UTF-8
\* text contains.
Bytes == {47, 97, 255}

Addrs == 1..MemSize

\* The last address: buffers may be longer than PosMax.
AddrTop == PosMax + 1

\* The byte of memory m at address a.
ByteAt(m, a) == IF a \in DOMAIN m THEN m[a] ELSE 97

\* A slice (&[u8] or &str): the address of its first byte and its length. An
\* empty slice may sit at any address, one past the last byte included.
Slices == {s \in [ptr : 1..(MemSize + 1), len : 0..MemSize] :
              s.ptr + s.len <= MemSize + 1}

\* Buffers whose length reaches or exceeds PosMax.
LongBufs == {[ptr |-> 1, len |-> l] : l \in {PosMax, PosMax + 1}}

\* Fields at the far end of the address space.
FarFields == {s \in [ptr : PosMax..(PosMax + 2), len : 0..1] :
                 s.ptr + s.len <= AddrTop + 1}

\* Option::None of a slice.
NoSlice == [ptr |-> 0, len |-> 0]

\* The bytes of slice s of memory m.
TextAt(m, s) == [i \in 1..s.len |-> ByteAt(m, s.ptr + i - 1)]

\* std::str::from_utf8 succeeds (on the bytes of the model: ASCII, or 0xFF).
Utf8Valid(bytes) == \A i \in 1..Len(bytes) : bytes[i] < 128

\* What read and the accessors return: Ok(None), Ok(Some(value)), Err(e), or a
\* panic; NoRes before anything was returned.
NoRes == [tag |-> "", kind |-> "", text |-> <<>>, err |-> ""]
OkNone == [tag |-> "none", kind |-> "", text |-> <<>>, err |-> ""]
OkSome(kind, text) == [tag |-> "some", kind |-> kind, text |-> text, err |-> ""]
Err(e) == [tag |-> "err", kind |-> "", text |-> <<>>, err |-> e]
Panic(e) == [tag |-> "panic", kind |-> "", text |-> <<>>, err |-> e]

\* The target types T of read: the three names of the header, and a text type
\* without syntax (String).
Kinds == {"ObjectPath", "InterfaceName", "MemberName", "Str"}

\* The syntax of the typed names, over the bytes '.', '/' and 'a'.
IsValid(kind, text) ==
    CASE kind = "ObjectPath" ->
            /\ Len(text) >= 1
            /\ text[1] = 47
            /\ \A i \in 1..Len(text) : text[i] \in {47, 97}
            /\ \A i \in 1..(Len(text) - 1) : ~(text[i] = 47 /\ text[i + 1] = 47)
            /\ Len(text) > 1 => text[Len(text)] # 47
      [] kind = "InterfaceName" ->
            /\ Len(text) >= 3
            /\ \A i \in 1..Len(text) : text[i] \in {46, 97}
            /\ text[1] # 46
            /\ text[Len(text)] # 46
            /\ \E i \in 1..Len(text) : text[i] = 46
            /\ \A i \in 1..(Len(text) - 1) : ~(text[i] = 46 /\ text[i + 1] = 46)
      [] kind = "MemberName" ->
            /\ Len(text) >= 1
            /\ \A i \in 1..Len(text) : text[i] = 97
      [] OTHER -> TRUE

\* T::try_from(s).map(Some).map_err(Into::into)
TryFrom(kind, text) ==
    IF IsValid(kind, text) THEN OkSome(kind, text) ELSE Err("convert")

\* FieldPos; NoPos is Option::None of it.
FieldPos(start, end) == [start |-> start, end |-> end]
NoPos == [start |-> -1, end |-> -1]

\* FieldPos::new_unknown
NewUnknown == FieldPos(0, 0)

\* FieldPos::new_not_present
NewNotPresent == FieldPos(1, 0)

\* usize::checked_sub: -1 stands for None.
CheckedSub(a, b) == IF a >= b THEN a - b ELSE -1

\* Mutant of Build: the range is not checked against the length of msg_buf.
BuildUnchecked(buf, field) ==
    IF field.ptr >= buf.ptr
    THEN FieldPos(field.ptr - buf.ptr, field.ptr - buf.ptr + field.len)
    ELSE FieldPos(buf.ptr - field.ptr, buf.ptr - field.ptr + field.len)

\* Mutant of Build: end is the length of the field, not offset + length.
BuildEndIsLen(buf, field) ==
    LET offset == CheckedSub(field.ptr, buf.ptr)
    IN  IF offset = -1 THEN NoPos
        ELSE IF offset <= buf.len /\ offset + field.len <= buf.len
        THEN FieldPos(offset, field.len)
        ELSE NoPos

\* Mutant of Build: the range is one-based and inclusive.
BuildOneBased(buf, field) ==
    LET offset == CheckedSub(field.ptr, buf.ptr)
    IN  IF offset = -1 THEN NoPos
        ELSE IF offset <= buf.len /\ offset + field.len <= buf.len
        THEN IF offset <= PosMax /\ offset + field.len <= PosMax
             THEN FieldPos(offset + 1, offset + field.len)
             ELSE NoPos
        ELSE NoPos

\* Mutant of Build: offsets are cast to the position's width, not converted.
BuildTruncates(buf, field) ==
    LET offset == CheckedSub(field.ptr, buf.ptr)
    IN  IF offset = -1 THEN NoPos
        ELSE IF offset <= buf.len /\ offset + field.len <= buf.len
        THEN FieldPos(offset % (PosMax + 1),
                      (offset + field.len) % (PosMax + 1))
        ELSE NoPos

\* FieldPos::build. Both slices lie in the address space, so that
\* offset + field_buf.len() does not overflow usize.
Build(buf, field) ==
    LET offset == CheckedSub(field.ptr, buf.ptr)
    IN  IF offset = -1 THEN NoPos
        ELSE IF offset <= buf.len /\ offset + field.len <= buf.len
        THEN IF offset <= PosMax /\ offset + field.len <= PosMax
             THEN FieldPos(offset, offset + field.len)
             ELSE NoPos
        ELSE NoPos

\* Mutant of New: a field whose position cannot be built is "not present".
NewFailIsAbsent(buf, field) ==
    IF field # NoSlice
    THEN IF Build(buf, field) # NoPos THEN Build(buf, field) ELSE NewNotPresent
    ELSE NewNotPresent

\* Mutant of New: an absent field is left "not cached".
NewAbsentIsUnknown(buf, field) ==
    IF field # NoSlice
    THEN IF Build(buf, field) # NoPos THEN Build(buf, field) ELSE NewUnknown
    ELSE NewUnknown

\* FieldPos::new
New(buf, field) ==
    IF field # NoSlice
    THEN IF Build(buf, field) # NoPos THEN Build(buf, field) ELSE NewUnknown
    ELSE NewNotPresent

\* &msg_buf[start..end], where 0 <= start <= end <= msg_buf.len().
SliceOf(m, buf, start, end) ==
    [i \in 1..(end - start) |-> ByteAt(m, buf.ptr + start + i - 1)]

\* Mutant of Read: every position with end = 0 is taken as "not present".
ReadEndZeroIsAbsent(p, m, buf, kind, fb) ==
    IF p.end = 0
    THEN [res |-> OkNone, fbCalls |-> 0, bufReads |-> 0]
    ELSE IF p.start > p.end \/ p.end > buf.len
    THEN [res |-> Panic("slice"), fbCalls |-> 0, bufReads |-> 1]
    ELSE IF ~Utf8Valid(SliceOf(m, buf, p.start, p.end))
    THEN [res |-> Panic("Invalid utf8 when reconstructing string"),
          fbCalls |-> 0, bufReads |-> 1]
    ELSE [res |-> TryFrom(kind, SliceOf(m, buf, p.start, p.end)),
          fbCalls |-> 0, bufReads |-> 1]

\* Mutant of Read: an error of the fallback is swallowed.
ReadSwallowsError(p, m, buf, kind, fb) ==
    IF p.start = 0 /\ p.end = 0
    THEN [res |-> IF fb.tag = "err" THEN OkNone ELSE fb,
          fbCalls |-> 1, bufReads |-> 0]
    ELSE IF p.start = 1 /\ p.end = 0
    THEN [res |-> OkNone, fbCalls |-> 0, bufReads |-> 0]
    ELSE IF p.start > p.end \/ p.end > buf.len
    THEN [res |-> Panic("slice"), fbCalls |-> 0, bufReads |-> 1]
    ELSE IF ~Utf8Valid(SliceOf(m, buf, p.start, p.end))
    THEN [res |-> Panic("Invalid utf8 when reconstructing string"),
          fbCalls |-> 0, bufReads |-> 1]
    ELSE [res |-> TryFrom(kind, SliceOf(m, buf, p.start, p.end)),
          fbCalls |-> 0, bufReads |-> 1]

\* Mutant of Read: a failed conversion is answered from the fallback.
ReadFallsBackOnConvertError(p, m, buf, kind, fb) ==
    IF p.start = 0 /\ p.end = 0
    THEN [res |-> fb, fbCalls |-> 1, bufReads |-> 0]
    ELSE IF p.start = 1 /\ p.end = 0
    THEN [res |-> OkNone, fbCalls |-> 0, bufReads |-> 0]
    ELSE IF p.start > p.end \/ p.end > buf.len
    THEN [res |-> Panic("slice"), fbCalls |-> 0, bufReads |-> 1]
    ELSE IF ~Utf8Valid(SliceOf(m, buf, p.start, p.end))
    THEN [res |-> Panic("Invalid utf8 when reconstructing string"),
          fbCalls |-> 0, bufReads |-> 1]
    ELSE IF TryFrom(kind, SliceOf(m, buf, p.start, p.end)).tag = "err"
    THEN [res |-> fb, fbCalls |-> 1, bufReads |-> 1]
    ELSE [res |-> TryFrom(kind, SliceOf(m, buf, p.start, p.end)),
          fbCalls |-> 0, bufReads |-> 1]

\* Mutant of Read: bytes that are no text are reported as an error.
ReadInvalidTextIsError(p, m, buf, kind, fb) ==
    IF p.start = 0 /\ p.end = 0
    THEN [res |-> fb, fbCalls |-> 1, bufReads |-> 0]
    ELSE IF p.start = 1 /\ p.end = 0
    THEN [res |-> OkNone, fbCalls |-> 0, bufReads |-> 0]
    ELSE IF p.start > p.end \/ p.end > buf.len
    THEN [res |-> Panic("slice"), fbCalls |-> 0, bufReads |-> 1]
    ELSE IF ~Utf8Valid(SliceOf(m, buf, p.start, p.end))
    THEN [res |-> Err("utf8"), fbCalls |-> 0, bufReads |-> 1]
    ELSE [res |-> TryFrom(kind, SliceOf(m, buf, p.start, p.end)),
          fbCalls |-> 0, bufReads |-> 1]

\* Mutant of Read: the "not present" arm asks the fallback.
ReadAbsentUsesFallback(p, m, buf, kind, fb) ==
    IF p.end = 0 /\ p.start \in {0, 1}
    THEN [res |-> fb, fbCalls |-> 1, bufReads |-> 0]
    ELSE IF p.start > p.end \/ p.end > buf.len
    THEN [res |-> Panic("slice"), fbCalls |-> 0, bufReads |-> 1]
    ELSE IF ~Utf8Valid(SliceOf(m, buf, p.start, p.end))
    THEN [res |-> Panic("Invalid utf8 when reconstructing string"),
          fbCalls |-> 0, bufReads |-> 1]
    ELSE [res |-> TryFrom(kind, SliceOf(m, buf, p.start, p.end)),
          fbCalls |-> 0, bufReads |-> 1]

\* FieldPos::read with target type kind, fb being what the fallback returns when
\* it is invoked: the value returned, and how often the fallback was invoked
\* and msg_buf sliced.
Read(p, m, buf, kind, fb) ==
    IF p.start = 0 /\ p.end = 0
    THEN [res |-> fb, fbCalls |-> 1, bufReads |-> 0]
    ELSE IF p.start = 1 /\ p.end = 0
    THEN [res |-> OkNone, fbCalls |-> 0, bufReads |-> 0]
    ELSE IF p.start > p.end \/ p.end > buf.len
    THEN [res |-> Panic("slice"), fbCalls |-> 0, bufReads |-> 1]
    ELSE IF ~Utf8Valid(SliceOf(m, buf, p.start, p.end))
    THEN [res |-> Panic("Invalid utf8 when reconstructing string"),
          fbCalls |-> 0, bufReads |-> 1]
    ELSE [res |-> TryFrom(kind, SliceOf(m, buf, p.start, p.end)),
          fbCalls |-> 0, bufReads |-> 1]

\* A value of each target type, for a fallback to return.
Sample(kind) ==
    CASE kind = "ObjectPath" -> <<47, 97>>
      [] kind = "InterfaceName" -> <<97, 46, 97>>
      [] kind = "MemberName" -> <<97>>
      [] OTHER -> <<97, 47>>

\* What a fallback of type FnOnce() -> Result<Option<T>> may return.
FallbackResults(kind) == {OkNone, OkSome(kind, Sample(kind)), Err("header")}

\* FieldPos::build(msg_buf, field_buf)
PosBuild ==
    /\ UNCHANGED <<fieldsVars, cacheVars>>
    /\ stage = "input"
    /\ fieldBuf # NoSlice
    /\ pos' = Build(msgBuf, fieldBuf)
    /\ stage' = "build"
    /\ UNCHANGED <<mem, msgBuf, fieldBuf, res, readKind, readBuf, fbCalls,
                   bufReads>>

\* FieldPos::new(msg_buf, field)
PosNew ==
    /\ UNCHANGED <<fieldsVars, cacheVars>>
    /\ stage = "input"
    /\ pos' = New(msgBuf, fieldBuf)
    /\ stage' = "new"
    /\ UNCHANGED <<mem, msgBuf, fieldBuf, res, readKind, readBuf, fbCalls,
                   bufReads>>

\* FieldPos::new_unknown(), which takes no field.
PosNewUnknown ==
    /\ UNCHANGED <<fieldsVars, cacheVars>>
    /\ stage = "input"
    /\ fieldBuf = NoSlice
    /\ pos' = NewUnknown
    /\ stage' = "new_unknown"
    /\ UNCHANGED <<mem, msgBuf, fieldBuf, res, readKind, readBuf, fbCalls,
                   bufReads>>

\* The bytes of another message: read takes any msg_buf, not only the one the
\* position was built for.
OtherBufs == {s \in Slices : s.ptr = 1}

\* The buffers a read of position p is given. The two sentinel arms of read do
\* not look at the buffer, so only a range is read against other buffers.
ReadBufs(p) ==
    IF p.end = 0 /\ p.start \in {0, 1} THEN {msgBuf} ELSE {msgBuf} \cup OtherBufs

\* self.read(buf, fallback). read leaves the position, the buffers and the
\* memory as they are, so a later read returns what it would return as the
\* first one: each behaviour makes one read (QuickMessageFields below is read
\* repeatedly).
PosRead(buf, kind, fb) ==
    /\ UNCHANGED <<fieldsVars, cacheVars>>
    /\ stage # "input"
    /\ pos # NoPos
    /\ readKind = ""
    /\ LET r == Read(pos, mem, buf, kind, fb)
       IN  /\ res' = r.res
           /\ readKind' = kind
           /\ readBuf' = buf
           /\ fbCalls' = r.fbCalls
           /\ bufReads' = r.bufReads
    /\ UNCHANGED <<mem, msgBuf, fieldBuf, pos, stage>>

PosOps ==
    \/ PosBuild
    \/ PosNew
    \/ PosNewUnknown
    \/ \E buf \in ReadBufs(pos) : \E kind \in Kinds :
          \E fb \in FallbackResults(kind) : PosRead(buf, kind, fb)

\* No FieldPos is exercised.
PosIdle ==
    /\ mem = [a \in Addrs |-> 97]
    /\ msgBuf = NoSlice
    /\ fieldBuf = NoSlice
    /\ pos = NoPos
    /\ stage = "idle"
    /\ res = NoRes
    /\ readKind = ""
    /\ readBuf = NoSlice
    /\ fbCalls = 0
    /\ bufReads = 0

\* Any memory, any buffer in it, and any field: absent, or a str anywhere
\* in it.
PosInputs ==
    /\ mem \in [Addrs -> Bytes]
    /\ msgBuf \in Slices \cup LongBufs
    /\ fieldBuf \in {NoSlice}
           \cup {s \in Slices \cup FarFields : Utf8Valid(TextAt(mem, s))}
    /\ pos = NoPos
    /\ stage = "input"
    /\ res = NoRes
    /\ readKind = ""
    /\ readBuf = NoSlice
    /\ fbCalls = 0
    /\ bufReads = 0

\* ------------------------------------------------------ QuickMessageFields
\* The accessors of QuickMessageFields, and the type each returns.
TextAccessors == {"path", "interface", "member"}
Accessors == TextAccessors \cup {"reply_serial"}

KindOf(acc) ==
    CASE acc = "path" -> "ObjectPath"
      [] acc = "interface" -> "InterfaceName"
      [] acc = "member" -> "MemberName"
      [] OTHER -> "u32"

\* What a lookup in the header returns for a field: Err, Ok(None), or
\* Ok(Some(v)), v being a typed view of memory (a text field) or a number
\* (the reply serial).
FieldErr == [tag |-> "err", view |-> NoSlice, val |-> 0]
FieldNone == [tag |-> "none", view |-> NoSlice, val |-> 0]
FieldView(s) == [tag |-> "some", view |-> s, val |-> 0]
FieldVal(n) == [tag |-> "some", view |-> NoSlice, val |-> n]

\* The messages of the model. The memory holds a copy of each text field
\* before the buffer, the buffer, and a copy of each text field right after
\* it. The buffer holds a prefix and then the fields that are views of it.
\* A message is described by the length of its prefix, by where each text
\* field of its header lives ("absent", "inline" in the buffer, in the copy
\* "before" or "after" it), by its reply serial, and by the lookup that fails
\* ("header": msg.header() fails; "": none does).
Copies ==
    Sample("ObjectPath") \o Sample("InterfaceName") \o Sample("MemberName")

CopyOffset(acc) ==
    CASE acc = "path" -> 0
      [] acc = "interface" -> Len(Sample("ObjectPath"))
      [] OTHER -> Len(Sample("ObjectPath")) + Len(Sample("InterfaceName"))

BufPtr == Len(Copies) + 1

InlineText(d, acc) ==
    IF d[acc] = "inline" THEN Sample(KindOf(acc)) ELSE <<>>

InlineOffset(d, acc) ==
    CASE acc = "path" -> d.prefix
      [] acc = "interface" -> d.prefix + Len(InlineText(d, "path"))
      [] OTHER -> d.prefix + Len(InlineText(d, "path"))
                    + Len(InlineText(d, "interface"))

BufBytes(d) ==
    [i \in 1..d.prefix |-> 255] \o InlineText(d, "path")
        \o InlineText(d, "interface") \o InlineText(d, "member")

MemOf(d) == Copies \o BufBytes(d) \o Copies

HeaderText(d, acc) ==
    IF d.fail = acc THEN FieldErr
    ELSE IF d[acc] = "absent" THEN FieldNone
    ELSE FieldView([len |-> Len(Sample(KindOf(acc))),
                    ptr |-> CASE d[acc] = "inline" -> BufPtr + InlineOffset(d, acc)
                              [] d[acc] = "before" -> 1 + CopyOffset(acc)
                              [] OTHER -> BufPtr + Len(BufBytes(d)) + CopyOffset(acc)])

\* The reply serial of the test.
ReplySerialVal == 42

MessageOf(d) ==
    [buf |-> [ptr |-> BufPtr, len |-> Len(BufBytes(d))],
     hdrOk |-> d.fail # "header",
     path |-> HeaderText(d, "path"),
     interface |-> HeaderText(d, "interface"),
     member |-> HeaderText(d, "member"),
     reply_serial |-> IF d.fail = "reply_serial" THEN FieldErr
                      ELSE IF d.reply = "none" THEN FieldNone
                      ELSE FieldVal(ReplySerialVal)]

Descriptions ==
    [prefix : {0, PrefixLen}, fail : {""}, reply : {"none", "some"},
     path : {"absent", "inline", "before", "after"},
     interface : {"absent", "inline", "before", "after"},
     member : {"absent", "inline", "before", "after"}]
    \cup
    [prefix : {0, PrefixLen}, fail : Accessors \cup {"header"},
     reply : {"none", "some"}, path : {"absent", "inline"},
     interface : {"absent", "inline"}, member : {"absent", "inline"}]

\* msg.header()?.path()?.cloned() and the like: the full, uncached lookup of
\* field acc in the header of message.
HeaderLookup(m, message, acc) ==
    IF ~message.hdrOk THEN Err("header")
    ELSE IF message[acc].tag = "err" THEN Err("field")
    ELSE IF message[acc].tag = "none" THEN OkNone
    ELSE IF acc = "reply_serial" THEN OkSome("u32", <<message[acc].val>>)
    ELSE OkSome(KindOf(acc), TextAt(m, message[acc].view))

\* Option<Option<u32>>: None, Some(None), Some(Some(n)).
SerialUnresolved == [tag |-> "unresolved", val |-> 0]
SerialNone == [tag |-> "none", val |-> 0]
SerialSome(n) == [tag |-> "some", val |-> n]

\* No QuickMessageFields.
NoCache ==
    [path |-> NoPos, interface |-> NoPos, member |-> NoPos,
     reply_serial |-> SerialUnresolved]

\* #[derive(Default)] of QuickMessageFields and of FieldPos.
DefaultCache ==
    [path |-> FieldPos(0, 0), interface |-> FieldPos(0, 0),
     member |-> FieldPos(0, 0), reply_serial |-> SerialUnresolved]

\* Option<&T> of a header field that was looked up without error.
OptView(f) == IF f.tag = "some" THEN f.view ELSE NoSlice

\* QuickMessageFields::new fails: one of the four lookups returns Err.
QuickNewFails(message) ==
    \E acc \in Accessors : message[acc].tag = "err"

\* QuickMessageFields::new, when it returns Ok.
QuickNew(buf, message) ==
    [path |-> New(buf, OptView(message.path)),
     interface |-> New(buf, OptView(message.interface)),
     member |-> New(buf, OptView(message.member)),
     reply_serial |-> IF message.reply_serial.tag = "some"
                      THEN SerialSome(message.reply_serial.val)
                      ELSE SerialNone]

\* Mutant of ReplySerial: the header is looked up whatever is cached.
ReplySerialAlwaysLooksUp(rs, fb) ==
    [res |-> fb, fbCalls |-> 1, bufReads |-> 0]

\* QuickMessageFields::reply_serial, fb being what the header lookup returns
\* when it is made.
ReplySerial(rs, fb) ==
    IF rs.tag = "unresolved"
    THEN [res |-> fb, fbCalls |-> 1, bufReads |-> 0]
    ELSE [res |-> IF rs.tag = "some" THEN OkSome("u32", <<rs.val>>) ELSE OkNone,
          fbCalls |-> 0, bufReads |-> 0]

\* An accessor of QuickMessageFields, self being the field of the cache it
\* reads.
Accessor(self, m, message, acc) ==
    IF acc = "reply_serial"
    THEN ReplySerial(self, HeaderLookup(m, message, acc))
    ELSE Read(self, m, message.buf, KindOf(acc), HeaderLookup(m, message, acc))

\* Mutant of CacheAfter: the outcome of a fallback is stored, an absent or
\* failed lookup as "not present".
CacheStoresFallback(c, acc, out) ==
    IF out.fbCalls = 1 /\ out.res.tag \in {"none", "err"}
    THEN IF acc = "reply_serial"
         THEN [c EXCEPT !.reply_serial = SerialNone]
         ELSE [c EXCEPT ![acc] = NewNotPresent]
    ELSE c

\* Mutant of CacheAfter: a reply serial found by the lookup is stored.
CacheStoresSerial(c, acc, out) ==
    IF acc = "reply_serial" /\ out.fbCalls = 1 /\ out.res.tag = "some"
    THEN [c EXCEPT !.reply_serial = SerialSome(out.res.text[1])]
    ELSE c

\* The cache after an accessor returned out: the accessors take &self.
CacheAfter(c, acc, out) == c

Readers == 1..NumReaders

IdleReader ==
    [pc |-> "idle", acc |-> "", self |-> NoPos, ret |-> NoRes,
     lookups |-> 0, bufReads |-> 0]

\* QuickMessageFields::new(buf, header), by the thread that decoded the header.
CacheNew ==
    /\ UNCHANGED <<fieldsVars, posVars>>
    /\ built = "no"
    /\ msg.hdrOk
    /\ IF QuickNewFails(msg)
       THEN cache' = NoCache /\ built' = "failed"
       ELSE cache' = QuickNew(msg.buf, msg) /\ built' = "new"
    /\ UNCHANGED <<msg, rd>>

\* QuickMessageFields::default()
CacheDefault ==
    /\ UNCHANGED <<fieldsVars, posVars>>
    /\ built = "no"
    /\ cache' = DefaultCache
    /\ built' = "default"
    /\ UNCHANGED <<msg, rd>>

\* Reader r calls accessor acc and loads the field of the cache it reads.
Call(r, acc) ==
    /\ UNCHANGED <<fieldsVars, posVars>>
    /\ built \in {"new", "default"}
    /\ rd[r].pc # "loaded"
    /\ rd' = [rd EXCEPT ![r] =
                [pc |-> "loaded", acc |-> acc, self |-> cache[acc],
                 ret |-> NoRes, lookups |-> 0, bufReads |-> 0]]
    /\ UNCHANGED <<msg, cache, built>>

\* Reader r evaluates the accessor on what it loaded and returns.
Return(r) ==
    /\ UNCHANGED <<fieldsVars, posVars>>
    /\ rd[r].pc = "loaded"
    /\ LET out == Accessor(rd[r].self, mem, msg, rd[r].acc)
       IN  /\ rd' = [rd EXCEPT ![r] =
                       [pc |-> "done", acc |-> rd[r].acc, self |-> rd[r].self,
                        ret |-> out.res, lookups |-> out.fbCalls,
                        bufReads |-> out.bufReads]]
           /\ cache' = CacheAfter(cache, rd[r].acc, out)
    /\ UNCHANGED <<msg, built>>

CacheOps ==
    \/ CacheNew
    \/ CacheDefault
    \/ \E r \in Readers : \E acc \in Accessors : Call(r, acc)
    \/ \E r \in Readers : Return(r)

\* No QuickMessageFields is exercised.
CacheIdle ==
    /\ msg = MessageOf([prefix |-> 0, fail |-> "header", reply |-> "none",
                        path |-> "absent", interface |-> "absent",
                        member |-> "absent"])
    /\ cache = NoCache
    /\ built = "idle"
    /\ rd = [r \in Readers |-> IdleReader]

\* A message was received and its header decoded; no cache is built yet.
CacheInputs ==
    /\ \E d \in Descriptions :
          /\ mem = MemOf(d)
          /\ msg = MessageOf(d)
    /\ msgBuf = NoSlice
    /\ fieldBuf = NoSlice
    /\ pos = NoPos
    /\ stage = "idle"
    /\ res = NoRes
    /\ readKind = ""
    /\ readBuf = NoSlice
    /\ fbCalls = 0
    /\ bufReads = 0
    /\ cache = NoCache
    /\ built = "no"
    /\ rd = [r \in Readers |-> IdleReader]

\* ---------------------------------------------------------- specifications
InitFields == FieldsIdle /\ PosIdle /\ CacheIdle
SpecFields == InitFields /\ [][FieldsOps]_vars

InitPos == FieldsIdle /\ PosInputs /\ CacheIdle
SpecPos == InitPos /\ [][PosOps]_vars

Init == FieldsIdle /\ CacheInputs
Next == CacheOps
Spec == Init /\ [][Next]_vars

\* ------------------------------------------------- claims on MessageFields
\* Index i is the first index of v whose code is c.
IsFirstMatch(v, c, i) ==
    /\ i \in 1..Len(v)
    /\ v[i].code = c
    /\ \A j \in 1..(i - 1) : v[j].code # c

HasCode(v, c) == \E i \in 1..Len(v) : v[i].code = c

\* C2: get() lists the entries in insertion order: an add or a replace keeps
\* every entry that was present at its index (a replace changes only the value
\* at the first matching index), a new entry is placed after all of them, and
\* after a replace the first entry with the replaced code is at the index it
\* had before.
C2_InsertionOrder ==
    /\ lastOp \in {"add", "replace"} =>
        /\ Len(fields) >= Len(prevFields)
        /\ Len(fields) <= Len(prevFields) + 1
        /\ \A i \in 1..Len(prevFields) :
              \/ fields[i] = prevFields[i]
              \/ /\ lastOp = "replace"
                 /\ IsFirstMatch(prevFields, lastArg.code, i)
                 /\ fields[i] = lastArg
        /\ Len(fields) = Len(prevFields) + 1 => fields[Len(fields)] = lastArg
    /\ lastOp = "replace" =>
        \A i \in 1..Len(prevFields) :
            IsFirstMatch(prevFields, lastArg.code, i)
                => IsFirstMatch(fields, lastArg.code, i)
    /\ lastOp = "get" => slice = fields /\ fields = prevFields

\* A replace has overwritten the second of three entries.
C2_Witness ==
    /\ lastOp = "replace"
    /\ Len(prevFields) = 3
    /\ IsFirstMatch(prevFields, lastArg.code, 2)
    /\ prevFields[2] # lastArg
    /\ fields[2] = lastArg

\* C3: replace on a collection without the code leaves what add leaves (the
\* collection with the entry appended) and returns None; replace on a
\* collection with the code returns the entry that was at the first matching
\* index and leaves the length unchanged.
C3_ReplaceResult ==
    lastOp = "replace" =>
        IF HasCode(prevFields, lastArg.code)
        THEN /\ \E i \in 1..Len(prevFields) :
                  /\ IsFirstMatch(prevFields, lastArg.code, i)
                  /\ lastRet = prevFields[i]
             /\ Len(fields) = Len(prevFields)
        ELSE /\ fields = prevFields \o <<lastArg>>
             /\ lastRet = NoField

\* A replace has returned a previous entry that differs from the new one.
C3_Witness ==
    /\ lastOp = "replace"
    /\ HasCode(prevFields, lastArg.code)
    /\ lastRet # NoField
    /\ lastRet # lastArg
    /\ Len(fields) = 2

\* C4: add appends unconditionally: every add makes the collection one longer,
\* also when the code is already there, so that two adds of one code to an
\* empty collection leave both entries, in order, for get(); get_field and
\* into_field return the lowest-index entry with the code (None without one).
C4_AddNoUniqueness ==
    /\ lastOp = "add" =>
        /\ Len(fields) = Len(prevFields) + 1
        /\ (Len(prevFields) = 1 /\ prevFields[1].code = lastArg.code)
              => fields = <<prevFields[1], lastArg>>
    /\ lastOp = "get" => slice = prevFields
    /\ lastOp \in {"get_field", "into_field"} =>
        IF HasCode(prevFields, lastArg.code)
        THEN \E i \in 1..Len(prevFields) :
                /\ IsFirstMatch(prevFields, lastArg.code, i)
                /\ lastRet = prevFields[i]
        ELSE lastRet = NoField

\* Two entries with one code and different values have been added to an empty
\* collection.
C4_Witness ==
    /\ lastOp = "add"
    /\ Len(fields) = 2
    /\ fields[1].code = fields[2].code
    /\ fields[1].value # fields[2].value
    /\ GetFieldRet(fields, fields[1].code) = fields[1]
\* C16: replace touches only the first match: with several entries of the
\* replaced code, the lowest-index one is overwritten and every other entry,
\* later entries with the same code included, keeps its value and its index.
C16_ReplaceOnlyFirst ==
    (lastOp = "replace" /\ HasCode(prevFields, lastArg.code)) =>
        /\ Len(fields) = Len(prevFields)
        /\ \E i \in 1..Len(prevFields) :
              /\ IsFirstMatch(prevFields, lastArg.code, i)
              /\ fields[i] = lastArg
              /\ \A j \in (1..Len(prevFields)) \ {i} : fields[j] = prevFields[j]

\* A replace has overwritten the first of two entries with one code and left
\* the second, whose value differs from the new one.
C16_Witness ==
    /\ lastOp = "replace"
    /\ \E i, j \in 1..Len(prevFields) :
          /\ i < j
          /\ IsFirstMatch(prevFields, lastArg.code, i)
          /\ prevFields[j].code = lastArg.code
          /\ prevFields[j] # lastArg
          /\ prevFields[i] # lastArg
          /\ fields[i] = lastArg
          /\ fields[j] = prevFields[j]

\* The codes replaced since the collection was created.
ReplacedCodes == {c \in Codes : replaced[c] # 0}

\* C19: from an empty collection and with replace only, no two entries have
\* the same code, the length is the number of distinct codes replaced so far,
\* and get_field(code) returns the entry last replaced for the code (None for
\* a code never replaced).
C19_ReplaceOnlyUnique ==
    (onlyReplace /\ alive) =>
        /\ \A i, j \in 1..Len(fields) : fields[i].code = fields[j].code => i = j
        /\ Len(fields) = Cardinality(ReplacedCodes)
        /\ \A c \in Codes :
              GetFieldRet(fields, c) =
                  IF c \in ReplacedCodes
                  THEN [code |-> c, value |-> replaced[c]]
                  ELSE NoField
        /\ lastOp = "get_field" =>
              lastRet = IF lastArg.code \in ReplacedCodes
                        THEN [code |-> lastArg.code, value |-> replaced[lastArg.code]]
                        ELSE NoField

\* With replace only, a code was replaced a second time, by another value,
\* after another code was replaced, and get_field returned the new entry.
C19_Witness ==
    /\ onlyReplace
    /\ Len(fields) = 2
    /\ lastOp = "get_field"
    /\ lastArg.code = fields[1].code
    /\ lastRet = fields[1]
    /\ fields[1].value = 2

\* ------------------------------------------------------ claims on FieldPos
\* The field is a view of the buffer: it starts at or after the buffer's start
\* and ends at or before the buffer's end.
FieldInBuffer ==
    /\ fieldBuf # NoSlice
    /\ fieldBuf.ptr >= msgBuf.ptr
    /\ fieldBuf.ptr + fieldBuf.len <= msgBuf.ptr + msgBuf.len

\* A position built from the field was read, against the buffer it was built
\* for, into the field's own type, the field being a value of that type.
BuiltAndRead ==
    /\ stage = "build"
    /\ pos # NoPos
    /\ readKind # ""
    /\ readBuf = msgBuf
    /\ IsValid(readKind, TextAt(mem, fieldBuf))

ConcreteRange(p) ==
    /\ p # NoPos
    /\ p # NewUnknown
    /\ p # NewNotPresent

\* The position was read, and its range lies within the buffer it was read
\* against.
ReadInBounds ==
    /\ readKind # ""
    /\ ConcreteRange(pos)
    /\ pos.start <= pos.end
    /\ pos.end <= readBuf.len

\* The bytes the last read sliced out of its buffer.
ReadBytes == SliceOf(mem, readBuf, pos.start, pos.end)

C15_ConversionErrorReturned ==
    (/\ ReadInBounds
     /\ Utf8Valid(ReadBytes)
     /\ ~IsValid(readKind, ReadBytes))
        => (res = Err("convert") /\ fbCalls = 0)

\* A name that is no object path was built and read as an object path: read
\* returned the conversion's error.
C15_Witness ==
    /\ stage = "build"
    /\ readBuf = msgBuf
    /\ readKind = "ObjectPath"
    /\ ReadInBounds
    /\ ReadBytes = <<97>>
    /\ TextAt(mem, fieldBuf) = <<97>>
    /\ res = Err("convert")
    /\ fbCalls = 0

\* C17: when the bytes at the cached range are not valid text, read ends in
\* the fatal fault of its expect, never in an error, "no value" or a call of
\* the fallback.
C17_InvalidTextPanics ==
    (ReadInBounds /\ ~Utf8Valid(ReadBytes)) =>
        /\ res = Panic("Invalid utf8 when reconstructing string")
        /\ fbCalls = 0

\* A position built for one buffer was read against another buffer, whose
\* bytes at the range are no text: read panicked.
C17_Witness ==
    /\ stage = "build"
    /\ readBuf # msgBuf
    /\ ReadInBounds
    /\ pos.end > pos.start
    /\ ~Utf8Valid(ReadBytes)
    /\ res.tag = "panic"

\* C18: every position a successful build returns has start <= end <= the
\* buffer's length, both being the field's offsets and fitting the position's
\* width (build fails where they do not fit), so a read against the same
\* buffer neither slices out of bounds nor meets bytes that are no text.
C18_BuildInBounds ==
    /\ (stage = "build" /\ pos # NoPos) =>
          /\ 0 <= pos.start
          /\ pos.start <= pos.end
          /\ pos.end <= msgBuf.len
          /\ pos.end <= PosMax
          /\ pos.start = fieldBuf.ptr - msgBuf.ptr
          /\ pos.end = pos.start + fieldBuf.len
          /\ (readKind # "" /\ readBuf = msgBuf) => res.tag # "panic"
    /\ (/\ stage = "build"
        /\ FieldInBuffer
        /\ fieldBuf.ptr + fieldBuf.len - msgBuf.ptr > PosMax)
          => pos = NoPos

\* build has returned a range that ends at the largest offset the position
\* can hold, and read has returned the field from the same buffer.
C18_Witness ==
    /\ stage = "build"
    /\ msgBuf.len > PosMax
    /\ pos = FieldPos(PosMax - 1, PosMax)
    /\ readBuf = msgBuf
    /\ res = OkSome("MemberName", <<97>>)

\* -------------------------------------------- claims on QuickMessageFields
\* Reader r has returned from accessor acc.
Returned(r, acc) == rd[r].pc = "done" /\ rd[r].acc = acc

\* The field of the cache the accessor read is "not cached".
LoadedUnresolved(r) ==
    IF rd[r].acc = "reply_serial"
    THEN rd[r].self = SerialUnresolved
    ELSE rd[r].self = NewUnknown

\* C1: on a cache built by new from the message's own buffer and header,
\* path, interface and member return what the full lookup in the header
\* returns, whether the field is absent or present and whether its position
\* was captured or not.
C1_AccessorsMatchHeader ==
    \A r \in Readers : \A acc \in TextAccessors :
        (built = "new" /\ Returned(r, acc))
            => rd[r].ret = HeaderLookup(mem, msg, acc)

\* Reader 1 got a path through the fallback and reader 2 an interface from its
\* cached range.
C1_Witness ==
    /\ built = "new"
    /\ Returned(1, "path")
    /\ rd[1].lookups = 1
    /\ rd[1].ret.tag = "some"
    /\ Returned(2, "interface")
    /\ rd[2].bufReads = 1
    /\ rd[2].ret = OkSome("InterfaceName", Sample("InterfaceName"))

\* C6: new makes the position of an absent field "not present", and every
\* read of it returns Ok(None) without slicing the buffer and without
\* invoking the fallback: a cache built from a message without a path, an
\* interface or a member returns Ok(None) for it without a header lookup.
C6_AbsentShortCircuits ==
    \A acc \in TextAccessors :
        (built = "new" /\ msg[acc].tag = "none") =>
            /\ cache[acc] = NewNotPresent
            /\ \A r \in Readers :
                  Returned(r, acc) =>
                      /\ rd[r].ret = OkNone
                      /\ rd[r].lookups = 0
                      /\ rd[r].bufReads = 0

\* A reader got Ok(None) for the interface of a message that has none but has
\* a path.
C6_Witness ==
    /\ built = "new"
    /\ msg.interface.tag = "none"
    /\ msg.path.tag = "some"
    /\ \E r \in Readers : Returned(r, "interface") /\ rd[r].ret = OkNone

\* C8: an accessor that takes the fallback path while the header lookup
\* returns an error returns that error, having invoked the lookup once.
C8_FallbackErrorPropagates ==
    \A r \in Readers :
        (/\ rd[r].pc = "done"
         /\ LoadedUnresolved(r)
         /\ HeaderLookup(mem, msg, rd[r].acc).tag = "err")
            => /\ rd[r].ret = HeaderLookup(mem, msg, rd[r].acc)
               /\ rd[r].lookups = 1

\* A reader got the error of a failing member lookup.
C8_Witness ==
    \E r \in Readers :
        /\ Returned(r, "member")
        /\ msg.hdrOk
        /\ msg.member.tag = "err"
        /\ rd[r].ret = Err("field")
        /\ rd[r].lookups = 1

\* C9: reply_serial returns a resolved cached value without a header lookup,
\* and makes one lookup, returning its result, when nothing is cached; new
\* always caches a resolved value, equal to the header's.
C9_ReplySerial ==
    /\ \A r \in Readers :
          Returned(r, "reply_serial") =>
              CASE rd[r].self = SerialUnresolved ->
                      /\ rd[r].lookups = 1
                      /\ rd[r].ret = HeaderLookup(mem, msg, "reply_serial")
                [] rd[r].self = SerialNone ->
                      rd[r].lookups = 0 /\ rd[r].ret = OkNone
                [] OTHER ->
                      /\ rd[r].lookups = 0
                      /\ rd[r].ret = OkSome("u32", <<rd[r].self.val>>)
    /\ built = "new" =>
          /\ cache.reply_serial # SerialUnresolved
          /\ \A r \in Readers :
                Returned(r, "reply_serial") =>
                    /\ rd[r].lookups = 0
                    /\ rd[r].ret = HeaderLookup(mem, msg, "reply_serial")

\* A reader got the cached reply serial of a cache built by new.
C9_Witness ==
    /\ built = "new"
    /\ \E r \in Readers :
          /\ Returned(r, "reply_serial")
          /\ rd[r].ret = OkSome("u32", <<ReplySerialVal>>)
          /\ rd[r].lookups = 0

\* The cache as it was constructed.
Constructed == IF built = "new" THEN QuickNew(msg.buf, msg) ELSE DefaultCache

\* C10: whatever the readers do, the cache stays what it was when it was
\* constructed, and every reader gets the result the accessor gives when it
\* runs alone on the constructed cache.
C10_ReadersIndependent ==
    built \in {"new", "default"} =>
        /\ cache = Constructed
        /\ \A r \in Readers :
              rd[r].pc = "done" =>
                  rd[r].ret = Accessor(Constructed[rd[r].acc], mem, msg,
                                       rd[r].acc).res

\* Reader 1 has returned from a fallback that found no path while reader 2 is
\* inside the same accessor.
C10_Witness ==
    /\ built = "default"
    /\ Returned(1, "path")
    /\ rd[1].lookups = 1
    /\ rd[1].ret = OkNone
    /\ rd[2].pc = "loaded"
    /\ rd[2].acc = "path"

\* C12: no read changes the cache: every position and the cached reply serial
\* stay what construction made them, every call loads the constructed value
\* (so the outcome of an earlier fallback is not what it finds), and every
\* read of a "not cached" field makes the lookup, once.
C12_ReadsNeverCache ==
    built \in {"new", "default"} =>
        /\ \A acc \in Accessors : cache[acc] = Constructed[acc]
        /\ \A r \in Readers :
              rd[r].pc \in {"loaded", "done"} =>
                  rd[r].self = Constructed[rd[r].acc]
        /\ \A r \in Readers :
              (rd[r].pc = "done" /\ LoadedUnresolved(r)) =>
                  /\ rd[r].lookups = 1
                  /\ rd[r].bufReads = 0

\* Both readers have read the reply serial of a default cache: each made the
\* lookup, which found the serial, and the cache still holds nothing.
C12_Witness ==
    /\ built = "default"
    /\ \A r \in {1, 2} :
          /\ Returned(r, "reply_serial")
          /\ rd[r].lookups = 1
          /\ rd[r].ret = OkSome("u32", <<ReplySerialVal>>)
    /\ cache.reply_serial = SerialUnresolved

\* C13: reads of a position that is "not present" or a range never invoke the
\* fallback, and all reads of it against the same buffer return the same
\* result.
C13_ResolvedReadsRepeatable ==
    \A acc \in TextAccessors : \A r \in Readers :
        (Returned(r, acc) /\ rd[r].self # NewUnknown) =>
            /\ rd[r].lookups = 0
            /\ \A q \in Readers :
                  (Returned(q, acc) /\ rd[q].self = rd[r].self) =>
                      rd[q].ret = rd[r].ret

\* Two readers have read the member from its cached range and a "not
\* present" field is cached as well.
C13_Witness ==
    /\ built = "new"
    /\ ConcreteRange(cache.member)
    /\ cache.path = NewNotPresent
    /\ \A r \in {1, 2} :
          /\ Returned(r, "member")
          /\ rd[r].bufReads = 1
          /\ rd[r].ret = OkSome("MemberName", Sample("MemberName"))

\* C14: a position that cannot be computed is neither an error nor a missing
\* field: for a field the header has, new caches the range build returns, or
\* "not cached" when build fails, never "not present"; and new fails only
\* when a lookup of one of the header's fields returns an error.
C14_BuildFailureIsUnresolved ==
    /\ built = "new" =>
          \A acc \in TextAccessors :
              msg[acc].tag = "some" =>
                  /\ cache[acc] # NewNotPresent
                  /\ IF Build(msg.buf, msg[acc].view) # NoPos
                     THEN /\ cache[acc] = Build(msg.buf, msg[acc].view)
                          /\ ConcreteRange(cache[acc])
                     ELSE cache[acc] = NewUnknown
    /\ built = "failed" => \E acc \in Accessors : msg[acc].tag = "err"
    /\ built = "new" => \A acc \in Accessors : msg[acc].tag # "err"

\* new has succeeded on a message whose path lies outside the buffer: the
\* path is "not cached", and a reader got it from the header.
C14_Witness ==
    /\ built = "new"
    /\ msg.path.tag = "some"
    /\ Build(msg.buf, msg.path.view) = NoPos
    /\ cache.path = NewUnknown
    /\ \E r \in Readers :
          /\ Returned(r, "path")
          /\ rd[r].lookups = 1
          /\ rd[r].ret = OkSome("ObjectPath", Sample("ObjectPath"))
====
